---- MODULE Spec2Model ----
(***************************************************************************)
(* The batch job of etl.py: the module-level configuration load, main(),   *)
(* and the statements of process_log_data that main() reaches, one action  *)
(* per statement.  Dataframes are sequences of rows (records); the output  *)
(* root is a map from the five destinations to the table stored there.     *)
(***************************************************************************)
EXTENDS Integers, Sequences, FiniteSets, TLC

\* Largest number of records in the activity-log input.
MaxLog == 2

\* Number of times the script is launched against the same input and output.
MaxRuns == 2

----------------------------------------------------------------------------
\* Input domains

\* Two epoch-millisecond timestamps: 1970-01-04 05:00:00 and 1970-01-23 13:00:00.
TsValues == {277200000, 1947600000}

\* Activity-log records as spark.read.json yields them (etl.py:91).
LogRecords ==
    [page : {"NextSong", "Home"}, userId : {1, 2}, firstName : {"Ann"},
     lastName : {"Lee"}, gender : {"F"}, level : {"free", "paid"},
     ts : TsValues, artist : {"Elvis Presley"}, song : {"Hound Dog"},
     sessionId : {7}, location : {"Memphis"}, userAgent : {"Mozilla"}]

\* A catalog record that matches the play events and one that does not.
SongHoundDog ==
    [song_id |-> "S1", title |-> "Hound Dog", artist_id |-> "A1",
     artist_name |-> "Elvis Presley", artist_location |-> "Memphis",
     artist_latitude |-> 35, artist_longitude |-> 90, year |-> 1956,
     duration |-> 136]

SongOther ==
    [song_id |-> "S2", title |-> "Yesterday", artist_id |-> "A2",
     artist_name |-> "The Beatles", artist_location |-> "Liverpool",
     artist_latitude |-> 53, artist_longitude |-> 3, year |-> 1965,
     duration |-> 125]

\* Contents of the song-metadata input.
Catalogs == {<<>>, <<SongHoundDog>>, <<SongOther>>, <<SongHoundDog, SongHoundDog>>}

\* All sequences over S of length at most n.
SeqUpTo(S, n) == UNION {[1..k -> S] : k \in 0..n}

----------------------------------------------------------------------------
\* The program

VARIABLES
    config,       \* sections found in dl.cfg
    log_data,     \* records under input_data + 'log_data/*.json'
    song_data,    \* records under the song-metadata prefix
    store,        \* output root: destination -> [exists, rows]
    before,       \* the output root as the current run found it
    run,          \* number of the current launch of the script
    pc,           \* label of the next statement, or "aborted" / "done"
    exit,         \* "running", "ok" or "failed"
    spark,        \* the session handle
    output_data,  \* the output root main() read from the configuration
    df,           \* the activity-log dataframe
    users_table,  \* the users dataframe
    trace,        \* statements executed so far, in order
    raised        \* the exception raised, if any: [step, kind]

vars == <<config, log_data, song_data, store, before, run, pc, exit, spark,
          output_data, df, users_table, trace, raised>>

Destinations ==
    {"songs_table.parquet", "artists_table.parquet", "users_table.parquet",
     "time_table.parquet", "songplays_table.parquet"}

\* The statements one run of the script executes, in source order.  The call
\* of process_song_data is commented out in main() and is not among them.
ProgramOrder ==
    <<"import_config", "create_spark_session", "main_config",
      "read_log_data", "filter_page", "select_users", "printSchema_users",
      "show_users", "write_users", "with_timestamp", "with_date",
      "select_time", "printSchema_time", "show_time", "write_time",
      "song_df", "join", "select_songplays", "printSchema_songplays",
      "show_songplays", "write_songplays">>

IndexOf(step) == CHOOSE i \in 1..Len(ProgramOrder) : ProgramOrder[i] = step

NextLabel(step) ==
    IF IndexOf(step) = Len(ProgramOrder) THEN "done"
    ELSE ProgramOrder[IndexOf(step) + 1]

NoException == [step |-> "none", kind |-> "none"]

\* Rows the output root may hold from an earlier deployment of the job.
StaleUser ==
    [userId |-> 9, firstName |-> "Old", lastName |-> "Row", gender |-> "M",
     level |-> "free"]

Absent == [exists |-> FALSE, rows |-> <<>>]

FreshStore == [d \in Destinations |-> Absent]

StaleStore ==
    [d \in Destinations |->
        IF d = "users_table.parquet"
        THEN [exists |-> TRUE, rows |-> <<StaleUser>>]
        ELSE [exists |-> TRUE, rows |-> <<>>]]

Init ==
    /\ config \in SUBSET {"AWS", "S3"}
    /\ log_data \in SeqUpTo(LogRecords, MaxLog)
    /\ song_data \in Catalogs
    /\ store \in {FreshStore, StaleStore}
    /\ before = store
    /\ run = 1
    /\ pc = "import_config"
    /\ exit = "running"
    /\ spark = "none"
    /\ output_data = "unset"
    /\ df = <<>>
    /\ users_table = <<>>
    /\ trace = <<>>
    /\ raised = NoException

\* A statement completes and control passes to the next one.
Advance(step) ==
    /\ pc' = NextLabel(step)
    /\ trace' = Append(trace, step)
    /\ exit' = IF NextLabel(step) = "done" THEN "ok" ELSE exit
    /\ raised' = raised

\* An exception logged and swallowed, the run carrying on with the next
\* statement.
PropagateSwallowed(step, kind) ==
    /\ pc' = NextLabel(step)
    /\ trace' = Append(trace, step)
    /\ exit' = exit
    /\ raised' = [step |-> step, kind |-> kind]

\* A statement raises: nothing in the script catches, so the exception leaves
\* main() and the interpreter exits with a failure status.
Propagate(step, kind) ==
    /\ pc' = "aborted"
    /\ trace' = Append(trace, step)
    /\ exit' = "failed"
    /\ raised' = [step |-> step, kind |-> kind]

\* df.filter(df.page == 'NextSong')
filter_NextSong(d) == SelectSeq(d, LAMBDA r : r.page = "NextSong")

\* df.select(cols)
select(d, cols) == [i \in 1..Len(d) |-> [c \in cols |-> d[i][c]]]

\* dropDuplicates(): one row per distinct tuple, first occurrences kept.
RECURSIVE dropDuplicates(_)
dropDuplicates(d) ==
    IF d = <<>> THEN <<>>
    ELSE LET front == dropDuplicates(SubSeq(d, 1, Len(d) - 1))
             last == d[Len(d)]
         IN IF \E i \in 1..Len(front) : front[i] = last
            THEN front ELSE Append(front, last)

UserColumns == {"userId", "firstName", "lastName", "gender", "level"}
SongColumns == {"song_id", "title", "artist_id", "year", "duration"}
ArtistColumns ==
    {"artist_id", "artist_name", "artist_location", "artist_latitude",
     "artist_longitude"}

select_users_table(d) == dropDuplicates(select(d, UserColumns))

\* Module level: config.read('dl.cfg') and the two config['AWS'][...] lookups.
import_config ==
    /\ pc = "import_config"
    /\ \/ "AWS" \in config /\ Advance("import_config")
       \/ "AWS" \notin config /\ Propagate("import_config", "KeyError")
    /\ UNCHANGED <<config, log_data, song_data, store, before, run, spark,
                   output_data, df, users_table>>

\* main(): spark = create_spark_session(); the engine may fail to start.
create_spark_session ==
    /\ pc = "create_spark_session"
    /\ \/ spark' = "session" /\ Advance("create_spark_session")
       \/ spark' = spark /\ Propagate("create_spark_session", "Py4JError")
    /\ UNCHANGED <<config, log_data, song_data, store, before, run,
                   output_data, df, users_table>>

\* main(): output_data = config['S3']['OUTPUT_DATA'].
main_config ==
    /\ pc = "main_config"
    /\ \/ "S3" \in config /\ output_data' = "s3" /\ Advance("main_config")
       \/ "S3" \notin config /\ output_data' = output_data
          /\ Propagate("main_config", "KeyError")
    /\ UNCHANGED <<config, log_data, song_data, store, before, run, spark,
                   df, users_table>>

\* process_log_data: df = spark.read.json(log_data); storage may fail.
read_log_data ==
    /\ pc = "read_log_data"
    /\ \/ df' = log_data /\ Advance("read_log_data")
       \/ df' = df /\ Propagate("read_log_data", "AnalysisException")
    /\ UNCHANGED <<config, log_data, song_data, store, before, run, spark,
                   output_data, users_table>>

\* df = df.filter(df.page == 'NextSong'); with no record read the schema is
\* empty and df.page raises.
filter_page ==
    /\ pc = "filter_page"
    /\ \/ df # <<>> /\ df' = filter_NextSong(df) /\ Advance("filter_page")
       \/ df = <<>> /\ df' = df /\ Propagate("filter_page", "AttributeError")
    /\ UNCHANGED <<config, log_data, song_data, store, before, run, spark,
                   output_data, users_table>>

\* users_table = df.select(...).dropDuplicates()
select_users ==
    /\ pc = "select_users"
    /\ users_table' = select_users_table(df)
    /\ Advance("select_users")
    /\ UNCHANGED <<config, log_data, song_data, store, before, run, spark,
                   output_data, df>>

\* users_table.printSchema()
printSchema_users ==
    /\ pc = "printSchema_users"
    /\ Advance("printSchema_users")
    /\ UNCHANGED <<config, log_data, song_data, store, before, run, spark,
                   output_data, df, users_table>>

\* users_table.show(5, truncated=False): show() has no parameter 'truncated',
\* so the call raises TypeError on every run.
show_users ==
    /\ pc = "show_users"
    /\ Propagate("show_users", "TypeError")
    /\ UNCHANGED <<config, log_data, song_data, store, before, run, spark,
                   output_data, df, users_table>>

\* if __name__ == "__main__": main() -- the script launched again once the
\* previous launch has ended, on the same configuration, input and output.
rerun ==
    /\ pc \in {"aborted", "done"}
    /\ run < MaxRuns
    /\ run' = run + 1
    /\ before' = store
    /\ pc' = "import_config"
    /\ exit' = "running"
    /\ spark' = "none"
    /\ output_data' = "unset"
    /\ df' = <<>>
    /\ users_table' = <<>>
    /\ trace' = <<>>
    /\ raised' = NoException
    /\ UNCHANGED <<config, log_data, song_data, store>>

Next ==
    \/ import_config
    \/ create_spark_session
    \/ main_config
    \/ read_log_data
    \/ filter_page
    \/ select_users
    \/ printSchema_users
    \/ show_users
    \/ rerun

Spec == Init /\ [][Next]_vars

----------------------------------------------------------------------------
\* Vocabulary of the properties

Range(s) == {s[i] : i \in DOMAIN s}

Ended == pc \in {"aborted", "done"}

\* Failures whose cause lies outside the script's statements: a missing
\* configuration section, the engine, the storage, an input with no record.
ExternalKinds == {"KeyError", "Py4JError", "AnalysisException", "AttributeError"}

\* The run has ended and nothing outside the script made it fail.
Undisturbed == Ended /\ raised.kind \notin ExternalKinds

\* The statement ran to completion in the current run.
Completed(step) == step \in Range(trace) /\ raised.step # step

\* The destination holds a table the current run wrote.
Written(d, step) == Completed(step) /\ store[d].exists

\* The statement that writes each destination.
WriteStep ==
    [d \in Destinations |->
        CASE d = "songs_table.parquet" -> "write_songs"
          [] d = "artists_table.parquet" -> "write_artists"
          [] d = "users_table.parquet" -> "write_users"
          [] d = "time_table.parquet" -> "write_time"
          [] d = "songplays_table.parquet" -> "write_songplays"]

PlayEvents == filter_NextSong(log_data)

\* Calendar arithmetic on seconds since the epoch (proleptic Gregorian, UTC).
StartTime(ts) == ts \div 1000
DaysOf(t) == t \div 86400
HourOf(t) == (t % 86400) \div 3600

CivilOf(days) ==
    LET z == days + 719468
        era == z \div 146097
        doe == z - era * 146097
        yoe == (doe - doe \div 1460 + doe \div 36524 - doe \div 146096) \div 365
        doy == doe - (365 * yoe + yoe \div 4 - yoe \div 100)
        mp == (5 * doy + 2) \div 153
        m == IF mp < 10 THEN mp + 3 ELSE mp - 9
    IN [year |-> IF m <= 2 THEN yoe + era * 400 + 1 ELSE yoe + era * 400,
        month |-> m,
        day |-> doy - (153 * mp + 2) \div 5 + 1]

DaysFromCivil(y, m, d) ==
    LET yy == IF m <= 2 THEN y - 1 ELSE y
        era == yy \div 400
        yoe == yy - era * 400
        doy == (153 * (IF m > 2 THEN m - 3 ELSE m + 9) + 2) \div 5 + d - 1
        doe == yoe * 365 + yoe \div 4 - yoe \div 100 + doy
    IN era * 146097 + doe - 719468

\* Sunday = 1 ... Saturday = 7.
DayOfWeek(days) == ((days + 4) % 7) + 1

\* ISO-8601 week number: the week of the Thursday of the day's week.
WeekOfYear(days) ==
    LET thursday == days - ((days + 3) % 7) + 3
        jan1 == DaysFromCivil(CivilOf(thursday).year, 1, 1)
    IN (thursday - jan1) \div 7 + 1

\* The time row of one timestamp.
TimeRow(ts) ==
    LET t == StartTime(ts)
        c == CivilOf(DaysOf(t))
    IN [start_time |-> t, hour |-> HourOf(t), day |-> c.day,
        week |-> WeekOfYear(DaysOf(t)), month |-> c.month, year |-> c.year,
        weekday |-> DayOfWeek(DaysOf(t))]

\* A time row whose fields all derive from its own start_time.
TimeRowConsistent(r) ==
    LET days == DaysOf(r.start_time)
    IN /\ r.hour = HourOf(r.start_time)
       /\ r.day = CivilOf(days).day
       /\ r.month = CivilOf(days).month
       /\ r.year = CivilOf(days).year
       /\ DaysFromCivil(r.year, r.month, r.day) = days
       /\ r.week = WeekOfYear(days)
       /\ r.weekday = DayOfWeek(days)

\* A play event and a catalog row agree on artist name and song title.
Matches(e, s) == e.artist = s.artist_name /\ e.song = s.title

\* The songplays row joins the play event with the catalog row.
JoinsRow(row, e, s) ==
    /\ Matches(e, s)
    /\ row.start_time = StartTime(e.ts)
    /\ row.user_id = e.userId
    /\ row.level = e.level
    /\ row.song_id = s.song_id
    /\ row.artist_id = s.artist_id
    /\ row.session_id = e.sessionId

NoDuplicates(rows) == Cardinality(Range(rows)) = Len(rows)

Users == store["users_table.parquet"]
Time == store["time_table.parquet"]
Songplays == store["songplays_table.parquet"]
Songs == store["songs_table.parquet"]
Artists == store["artists_table.parquet"]

----------------------------------------------------------------------------
\* Properties

\* C1: in every run of main() the song-catalog branch runs and completes
\* before the activity-log branch: once process_log_data has started reading,
\* and whenever its join has executed, process_song_data has completed in
\* the same run.
C1_SongBranchFirst ==
    /\ "read_log_data" \in Range(trace) => Completed("process_song_data")
    /\ "join" \in Range(trace) => Completed("process_song_data")

\* C2: no record whose page is not 'NextSong' contributes a row to the users,
\* time or songplays table the run writes; a run over an input holding only
\* non-play events writes the three tables, and writes them empty.
C2_OnlyPlayEvents ==
    /\ Written("users_table.parquet", "write_users") =>
          Range(Users.rows) \subseteq Range(select(PlayEvents, UserColumns))
    /\ Written("time_table.parquet", "write_time") =>
          \A r \in Range(Time.rows) :
             \E e \in Range(PlayEvents) : r.start_time = StartTime(e.ts)
    /\ Written("songplays_table.parquet", "write_songplays") =>
          \A r \in Range(Songplays.rows) :
             \E e \in Range(PlayEvents) :
                r.user_id = e.userId /\ r.start_time = StartTime(e.ts)
    /\ (Undisturbed /\ log_data # <<>> /\ PlayEvents = <<>>) =>
          /\ Written("users_table.parquet", "write_users")
          /\ Written("time_table.parquet", "write_time")
          /\ Written("songplays_table.parquet", "write_songplays")
          /\ Users.rows = <<>> /\ Time.rows = <<>> /\ Songplays.rows = <<>>

\* C3: the songplays table is the join of the play events with the song
\* catalog on artist name and song title: every matching pair yields a row
\* carrying the catalog row's song_id and artist_id, every row comes from a
\* matching pair, and one play event with one matching catalog row yields
\* exactly one row.
C3_SongplaysJoin ==
    Undisturbed =>
       /\ Written("songplays_table.parquet", "write_songplays")
       /\ \A e \in Range(PlayEvents) : \A s \in Range(song_data) :
             Matches(e, s) =>
                \E row \in Range(Songplays.rows) : JoinsRow(row, e, s)
       /\ \A row \in Range(Songplays.rows) :
             \E e \in Range(PlayEvents) : \E s \in Range(song_data) :
                JoinsRow(row, e, s)
       /\ (Len(PlayEvents) = 1 /\ song_data = <<SongHoundDog>>) =>
             Len(Songplays.rows) = 1

\* C4: the songplays table a run writes gives every row a songplay_id, no two
\* rows the same one, increasing in the order the rows are produced.
C4_SongplayIds ==
    Undisturbed =>
       /\ Written("songplays_table.parquet", "write_songplays")
       /\ \A i \in DOMAIN Songplays.rows :
             "songplay_id" \in DOMAIN Songplays.rows[i]
       /\ \A i, j \in DOMAIN Songplays.rows :
             i < j => Songplays.rows[i].songplay_id < Songplays.rows[j].songplay_id

\* C5: each of the songs, artists, users and time tables, as persisted, holds
\* every distinct tuple of the projected columns of its input exactly once
\* (users and time after the play-event filter).
C5_DistinctProjections ==
    Undisturbed =>
       /\ Written("songs_table.parquet", "write_songs")
       /\ Range(Songs.rows) = Range(select(song_data, SongColumns))
       /\ NoDuplicates(Songs.rows)
       /\ Written("artists_table.parquet", "write_artists")
       /\ Range(Artists.rows) = Range(select(song_data, ArtistColumns))
       /\ NoDuplicates(Artists.rows)
       /\ Written("users_table.parquet", "write_users")
       /\ Range(Users.rows) = Range(select(PlayEvents, UserColumns))
       /\ NoDuplicates(Users.rows)
       /\ Written("time_table.parquet", "write_time")
       /\ Range(Time.rows) = {TimeRow(e.ts) : e \in Range(PlayEvents)}
       /\ NoDuplicates(Time.rows)

\* C6: the time table holds a row for the timestamp of every play event, and
\* in every row hour, day, week, month, year and weekday are those of the
\* row's own start_time.
C6_TimeDecomposition ==
    (Undisturbed /\ PlayEvents # <<>>) =>
       /\ Written("time_table.parquet", "write_time")
       /\ \A e \in Range(PlayEvents) :
             \E r \in Range(Time.rows) : r.start_time = StartTime(e.ts)
       /\ \A r \in Range(Time.rows) : TimeRowConsistent(r)

\* C7: two runs in succession over unchanged input: the second run writes
\* each of the five tables again and leaves in it the rows the first run left.
C7_RerunIdempotent ==
    (Undisturbed /\ run = 2) =>
       \A d \in Destinations :
          /\ Written(d, WriteStep[d])
          /\ before[d].exists
          /\ Range(store[d].rows) = Range(before[d].rows)
          /\ Len(store[d].rows) = Len(before[d].rows)

\* C8: after a completed run each of the five destinations holds exactly the
\* rows computed from that run's input, and no row of earlier output.
C8_OutputReplaced ==
    Undisturbed =>
       /\ \A d \in Destinations : Written(d, WriteStep[d])
       /\ Range(Songs.rows) = Range(select(song_data, SongColumns))
       /\ Range(Artists.rows) = Range(select(song_data, ArtistColumns))
       /\ Range(Users.rows) = Range(select(PlayEvents, UserColumns))
       /\ Range(Time.rows) = {TimeRow(e.ts) : e \in Range(PlayEvents)}
       /\ \A row \in Range(Songplays.rows) :
             \E e \in Range(PlayEvents) : \E s \in Range(song_data) :
                JoinsRow(row, e, s)

\* C9: a failure raised in any statement propagates uncaught and aborts the
\* run: the statements executed are an initial part of the program, each
\* executed once, the failing one last; the run then has the failed status;
\* a run without a failure is at the statement after the last one executed,
\* and reports success only after the last statement of the program.
C9_FailureAbortsRun ==
    /\ Len(trace) <= Len(ProgramOrder)
    /\ \A i \in DOMAIN trace : trace[i] = ProgramOrder[i]
    /\ raised # NoException =>
          /\ pc = "aborted"
          /\ exit = "failed"
          /\ trace # <<>>
          /\ trace[Len(trace)] = raised.step
    /\ raised = NoException =>
          /\ exit # "failed"
          /\ pc # "aborted"
          /\ pc = "done" <=> Len(trace) = Len(ProgramOrder)
          /\ pc # "done" => pc = ProgramOrder[Len(trace) + 1]
    /\ exit = "ok" <=> pc = "done"

\* A run aborted by the failing show, with the later statements not executed.
C9_Witness ==
    /\ pc = "aborted"
    /\ exit = "failed"
    /\ raised = [step |-> "show_users", kind |-> "TypeError"]
    /\ Len(trace) = 8
    /\ users_table # <<>>

\* C10: the activity-log branch writes users, then time, then songplays, as
\* three overwrites: a run that nothing outside the script disturbs completes
\* all three, and a run that aborts after k of them leaves the first k tables
\* written by it and the other tables as the run found them.
C10_WritesInOrder ==
    LET writes == <<"write_users", "write_time", "write_songplays">>
        dest == <<"users_table.parquet", "time_table.parquet",
                  "songplays_table.parquet">>
        done == {i \in 1..3 : Completed(writes[i])}
    IN /\ \A i \in done : \A j \in 1..i : j \in done
       /\ Ended => \A i \in (1..3) \ done : store[dest[i]] = before[dest[i]]
       /\ Ended => \A i \in done : store[dest[i]].exists
       /\ Undisturbed => done = 1..3

====
